---- MODULE Spec2Model ----
(***************************************************************************)
(* Model of src/src/node-aes-gcm.cc: the two whole-buffer operations       *)
(* gcm::Encrypt and gcm::Decrypt and the way they drive the OpenSSL EVP    *)
(* AES-GCM primitive.                                                      *)
(*                                                                         *)
(* Abstractions.                                                           *)
(*  - A byte is a value of Byte; buffers are sequences of bytes.  A key is *)
(*    represented by its length only (all keys of one length are the same  *)
(*    key).                                                                *)
(*  - size_t is the 64-bit machine word, kept as SizeTLimbs limbs of       *)
(*    LimbBase, least significant first, so that (n - 1) wraps as in C.    *)
(*  - AES-GCM is a symbolic cipher: the key stream is a function of the    *)
(*    bound cipher and IV, the tag is an injective encoding of everything  *)
(*    GCM authenticates (cipher, IV, associated data, ciphertext).         *)
(*  - The primitive follows OpenSSL 1.0.2/1.1.1 (package.json: node <15):  *)
(*    a call returns 1 or 0 and the handlers discard that value.           *)
(***************************************************************************)
EXTENDS Integers, Sequences, FiniteSets, TLC

(* ---------------------------- bounds ----------------------------------- *)
MaxLen == 2
MaxLive == 3
MaxBufLen == 40

(* ------------------------ program constants ---------------------------- *)
AUTH_TAG_LEN == 16
DefaultIvLen == 12

Byte == {0, 1}
KeyLens == {15, 16, 17, 20, 24, 32, 33}
TagLens == {12, 16, 20}

BufsUpTo(n) == UNION {[1..k -> Byte] : k \in 0..n}

\* the IVs passed: the empty buffer and the buffers of one byte
Ivs == BufsUpTo(1)

\* the associated data passed, when a buffer is passed
Aads == BufsUpTo(1)

(* ------------------------ size_t arithmetic ---------------------------- *)
LimbBase == 2^16
SizeTLimbs == 64 \div 16
Limbs == 1..SizeTLimbs

\* a small non-negative int converted to size_t
SizeT(n) == [i \in Limbs |-> IF i = 1 THEN n % LimbBase
                             ELSE IF i = 2 THEN n \div LimbBase ELSE 0]

\* x - 1 in unsigned arithmetic: borrows through the low zero limbs
SizeTDec(x) ==
  LET nz == {i \in Limbs : x[i] # 0}
      k  == IF nz = {} THEN SizeTLimbs + 1
            ELSE CHOOSE i \in nz : \A j \in nz : i <= j
  IN  [i \in Limbs |-> IF i < k THEN LimbBase - 1
                       ELSE IF i = k THEN x[i] - 1 ELSE x[i]]

\* x + 1 in unsigned arithmetic: carries through the low all-ones limbs
SizeTInc(x) ==
  LET nf == {i \in Limbs : x[i] # LimbBase - 1}
      k  == IF nf = {} THEN SizeTLimbs + 1
            ELSE CHOOSE i \in nf : \A j \in nf : i <= j
  IN  [i \in Limbs |-> IF i < k THEN 0
                       ELSE IF i = k THEN x[i] + 1 ELSE x[i]]

RECURSIVE RemAbove(_, _, _)
\* remainder of (limbs above i) divided by d
RemAbove(x, d, i) ==
  IF i >= SizeTLimbs THEN 0
  ELSE (RemAbove(x, d, i + 1) * LimbBase + x[i + 1]) % d

\* x / d for a small divisor d, schoolbook long division
SizeTDiv(x, d) ==
  [i \in Limbs |-> (RemAbove(x, d, i) * LimbBase + x[i]) \div d]

RECURSIVE CarryInto(_, _, _)
CarryInto(x, m, i) ==
  IF i = 1 THEN 0
  ELSE (x[i - 1] * m + CarryInto(x, m, i - 1)) \div LimbBase

\* x * m for a small factor m; the carry out of the top limb is lost
SizeTMul(x, m) ==
  [i \in Limbs |-> (x[i] * m + CarryInto(x, m, i)) % LimbBase]

\* x >= y on size_t values
SizeTGeq(x, y) ==
  LET d == {i \in Limbs : x[i] # y[i]}
  IN  d = {} \/ (LET t == CHOOSE i \in d : \A j \in d : j <= i
                 IN  x[t] > y[t])

\* (uint32_t)x for the values the model reaches (they fit one limb pair)
Uint32(x) == x[1] + x[2] * LimbBase

\* the rounding without its "+ 1"
EncryptBufferLen_mut(plaintext_len, key_len) ==
  SizeTMul(SizeTDiv(SizeTDec(SizeT(plaintext_len)), key_len), key_len)

\* line 94: (((plaintext_len - 1) / key_len) + 1) * key_len
EncryptBufferLen(plaintext_len, key_len) ==
  SizeTMul(SizeTInc(SizeTDiv(SizeTDec(SizeT(plaintext_len)), key_len)), key_len)

\* line 208: (((ciphertext_len - 1) / 16) + 1) * 16
DecryptBufferLen(ciphertext_len) ==
  SizeTMul(SizeTInc(SizeTDiv(SizeTDec(SizeT(ciphertext_len)), 16)), 16)

(* --------------------- the AEAD primitive (OpenSSL EVP) ---------------- *)
\* lines 72-85 / 186-199: the switch on key_len
ValidKeyLens == {16, 24, 32}

\* the switch with the case 24 picking the 256-bit cipher
CipherFor_mut(key_len) ==
  CASE key_len = 16 -> "aes-128-gcm"
    [] key_len = 24 -> "aes-256-gcm"
    [] key_len = 32 -> "aes-256-gcm"
    [] OTHER        -> "none"

CipherFor(key_len) ==
  CASE key_len = 16 -> "aes-128-gcm"
    [] key_len = 24 -> "aes-192-gcm"
    [] key_len = 32 -> "aes-256-gcm"
    [] OTHER        -> "none"

CipherIdx(cipher) ==
  CASE cipher = "aes-128-gcm" -> 0
    [] cipher = "aes-192-gcm" -> 1
    [] cipher = "aes-256-gcm" -> 2
    [] OTHER                  -> 0

\* no context: the value of ctx before EVP_CIPHER_CTX_new and between calls
NoCtx == [st |-> "none", enc |-> FALSE, cipher |-> "none",
          ivlen |-> 0, key_set |-> FALSE, iv_set |-> FALSE, iv |-> <<>>,
          aad |-> <<>>, data |-> <<>>, tag_set |-> FALSE, tag |-> <<>>,
          done |-> FALSE]

\* EVP_CIPHER_CTX_new(): a fresh context, or NULL when the allocation fails
EVP_CIPHER_CTX_new(fail) ==
  [NoCtx EXCEPT !.st = IF fail THEN "null" ELSE "live"]

\* EVP_{En,De}cryptInit_ex(ctx, cipher_type, NULL, NULL, NULL): binds the
\* cipher and its default IV length; fails when the cipher data cannot be
\* allocated, and then leaves the context without a cipher
EVP_CipherInit_ex(c, cipher_type, enc, fail) ==
  IF fail THEN [ok |-> FALSE, ctx |-> [c EXCEPT !.enc = enc]]
  ELSE [ok |-> TRUE,
        ctx |-> [c EXCEPT !.enc = enc, !.cipher = cipher_type,
                          !.ivlen = DefaultIvLen]]

\* EVP_CIPHER_CTX_ctrl(ctx, EVP_CTRL_GCM_SET_IVLEN, iv_len, NULL): refused
\* without a cipher and for iv_len <= 0; the old IV length then stays
EVP_CTRL_GCM_SET_IVLEN(c, iv_len) ==
  IF c.cipher # "none" /\ iv_len > 0
  THEN [ok |-> TRUE, ctx |-> [c EXCEPT !.ivlen = iv_len]]
  ELSE [ok |-> FALSE, ctx |-> c]

\* the byte strings the primitive can read as the IV: it reads ctx.ivlen
\* bytes at iv; when the buffer is shorter the read runs past its end and the
\* bytes found there are anything (g stands for them)
IvReads(c, iv) ==
  IF c.cipher = "none" THEN {<<>>}
  ELSE IF c.ivlen <= Len(iv) THEN {SubSeq(iv, 1, c.ivlen)}
  ELSE {iv \o <<g>> : g \in Byte}

\* EVP_{En,De}cryptInit_ex(ctx, NULL, NULL, key, iv): binds key and IV
EVP_CipherInit_ex_keyiv(c, ivread) ==
  IF c.cipher = "none" THEN [ok |-> FALSE, ctx |-> c]
  ELSE [ok |-> TRUE,
        ctx |-> [c EXCEPT !.key_set = TRUE, !.iv_set = TRUE, !.iv = ivread]]

RECURSIVE BitsValue(_)
BitsValue(s) == IF s = <<>> THEN 0 ELSE Head(s) + 2 * BitsValue(Tail(s))

\* an injective code of a byte string (strings of all lengths together)
SeqCode(s) == (2^Len(s) - 1) + BitsValue(s)

\* the IV a context is bound to: the bytes read and whether their count is
\* the length of the caller's buffer or the stale default
IvCode(c) == 2 * SeqCode(c.iv) + (IF c.ivlen = Len(c.iv) THEN 0 ELSE 1)

\* the key stream byte at position i
KeyStream(c, i) == (CipherIdx(c.cipher) + IvCode(c) + i) % 2

\* what GCM authenticates, as one number
AuthCode(c) ==
  CipherIdx(c.cipher)
  + 3 * (IvCode(c)
         + 2^3 * (SeqCode(c.aad)
                  + 2^2 * SeqCode(c.data)))

\* the 16-byte tag of the context's session
GcmTag(c) == [j \in 1..AUTH_TAG_LEN |-> (AuthCode(c) \div 2^(j - 1)) % 2]

\* EVP_{En,De}cryptUpdate(ctx, NULL, &outl, aad, aad_len)
EVP_Update_aad(c, in) ==
  IF c.key_set /\ c.iv_set
  THEN [ok |-> TRUE, ctx |-> [c EXCEPT !.aad = c.aad \o in], outl |-> Len(in)]
  ELSE [ok |-> FALSE, ctx |-> c, outl |-> 0]

\* EVP_{En,De}cryptUpdate(ctx, out, &outl, in, in_len): counter mode, one
\* output byte per input byte; the ciphertext side is authenticated
EVP_Update_data(c, in) ==
  LET out == [i \in 1..Len(in) |-> (in[i] + KeyStream(c, i)) % 2]
  IN  IF c.key_set /\ c.iv_set
      THEN [ok |-> TRUE, out |-> out, outl |-> Len(in),
            ctx |-> [c EXCEPT !.data = c.data \o (IF c.enc THEN out ELSE in)]]
      ELSE [ok |-> FALSE, out |-> <<>>, outl |-> 0, ctx |-> c]

\* EVP_EncryptFinal_ex: completes the tag, produces no bytes
EVP_EncryptFinal_ex(c) ==
  IF c.enc /\ c.key_set /\ c.iv_set
  THEN [ok |-> TRUE, ctx |-> [c EXCEPT !.done = TRUE], outl |-> 0]
  ELSE [ok |-> FALSE, ctx |-> c, outl |-> 0]

\* EVP_DecryptFinal_ex: recomputes the tag and compares it with the installed
\* reference tag; *outl is zeroed on entry
EVP_DecryptFinal_ex(c) ==
  IF ~c.enc /\ c.key_set /\ c.iv_set /\ c.tag_set /\ c.tag = GcmTag(c)
  THEN [ok |-> TRUE, ctx |-> [c EXCEPT !.done = TRUE], outl |-> 0]
  ELSE [ok |-> FALSE, ctx |-> c, outl |-> 0]

\* EVP_CIPHER_CTX_ctrl(ctx, EVP_CTRL_GCM_GET_TAG, AUTH_TAG_LEN, auth_tag)
EVP_CTRL_GCM_GET_TAG(c) ==
  IF c.enc /\ c.done THEN [ok |-> TRUE, tag |-> GcmTag(c)]
  ELSE [ok |-> FALSE, tag |-> <<>>]

\* EVP_CIPHER_CTX_ctrl(ctx, EVP_CTRL_GCM_SET_TAG, AUTH_TAG_LEN, auth_tag)
EVP_CTRL_GCM_SET_TAG(c, auth_tag) ==
  IF c.cipher # "none" /\ ~c.enc
  THEN [ok |-> TRUE, ctx |-> [c EXCEPT !.tag_set = TRUE, !.tag = auth_tag]]
  ELSE [ok |-> FALSE, ctx |-> c]

\* EVP_CIPHER_CTX_free(ctx): destroys a live context, ignores NULL
EVP_CIPHER_CTX_free(c) ==
  IF c.st = "live" THEN [NoCtx EXCEPT !.st = "freed"] ELSE c

\* Nan::CopyBuffer(buf, n): the n bytes at buf; bytes never written (or past
\* the end of the work buffer) are whatever memory holds, g stands for them
CopyBuffer(buf, n, g) == [i \in 1..n |-> IF i <= Len(buf) THEN buf[i] ELSE g]

(* ------------------------------ state ---------------------------------- *)
VARIABLES
  pc,       \* position inside the running call, "returned" when it has
            \* ended, "idle" between calls
  op,       \* the operation called last: "none", "encrypt", "decrypt"
  args,     \* the arguments of that call
  loc,      \* its local variables
  ctx,      \* the EVP_CIPHER_CTX the local variable ctx points to
  heap,     \* number of live new[] buffers
  life,     \* contexts created and freed by the call, contexts live now
  calls,    \* the primitive calls the call has made, in order
  failed,   \* the primitive calls of the call that returned failure
  result,   \* what the call threw or returned
  last,     \* input and output of the last encrypt that returned
  tamper    \* how the arguments of a decrypt differ from last

vars == <<pc, op, args, loc, ctx, heap, life, calls, failed, result, last,
          tamper>>

NoArgs == [argsOk |-> TRUE, key_len |-> 16, iv |-> <<>>, data |-> <<>>,
           hasAuthData |-> FALSE, aad |-> <<>>, auth_tag |-> <<>>]

\* locals: outl is <<>> while uninitialised (line 123 / 237), out_len is the
\* variable ciphertext_len (Encrypt) or plaintext_len (Decrypt)
NoLoc == [cipher_type |-> "none", buf_len |-> SizeT(0), buf |-> <<>>,
          outl |-> <<>>, out_len |-> SizeT(0), reported |-> 0,
          auth_tag |-> <<>>, auth_ok |-> FALSE]

NoResult == [kind |-> "none", msg |-> "", data |-> <<>>, auth_tag |-> <<>>,
             auth_ok |-> FALSE]

Thrown(msg) == [NoResult EXCEPT !.kind = "error", !.msg = msg]

NoLast == [valid |-> FALSE, key_len |-> 16, iv |-> <<>>, plaintext |-> <<>>,
           hasAuthData |-> FALSE, aad |-> <<>>, ciphertext |-> <<>>,
           auth_tag |-> [j \in 1..AUTH_TAG_LEN |-> 0]]

NoTamper == [kind |-> "none", pos |-> 0]

Init ==
  /\ pc = "idle" /\ op = "none" /\ args = NoArgs /\ loc = NoLoc
  /\ ctx = NoCtx /\ heap = 0
  /\ life = [created |-> 0, freed |-> 0, live |-> 0]
  /\ calls = <<>> /\ failed = {} /\ result = NoResult /\ last = NoLast
  /\ tamper = NoTamper

(* ------------------------------ helpers -------------------------------- *)
\* an allocation inside the primitive may fail
OomChoices == BOOLEAN

\* the values a read of an int variable can give
ReadInt(v) == IF v = <<>> THEN 0..(MaxLen + 1) ELSE {v[1]}

\* bookkeeping of one primitive call
Logged(name, ok) ==
  /\ calls' = Append(calls, name)
  /\ failed' = IF ok THEN failed ELSE failed \cup {name}

\* the primitive dereferences a NULL context or a NULL cipher: the process
\* dies inside the call
Crash ==
  /\ pc' = "crashed"
  /\ UNCHANGED <<op, args, loc, ctx, heap, life, calls, failed, result, last,
                 tamper>>

Flip(s, i) == [s EXCEPT ![i] = 1 - s[i]]

\* the auth_tag argument cut or zero-extended to n bytes
Resize(t, n) == [j \in 1..n |-> IF j <= Len(t) THEN t[j] ELSE 0]

(* ------------------------------ Encrypt -------------------------------- *)
\* lines 55-60: fewer than 4 arguments or one of a wrong type
EncryptArgsBad(argsOk) == ~argsOk

\* lines 51-105: argument check, cipher selection, buffers
EncryptCall(argsOk, key_len, iv, plaintext, hasAuthData, aad) ==
  /\ pc = "idle"
  /\ op' = "encrypt"
  /\ args' = [argsOk |-> argsOk, key_len |-> key_len, iv |-> iv,
              data |-> plaintext, hasAuthData |-> hasAuthData, aad |-> aad,
              auth_tag |-> <<>>]
  /\ calls' = <<>> /\ failed' = {}
  /\ life' = [created |-> 0, freed |-> 0, live |-> life.live]
  /\ tamper' = NoTamper /\ last' = NoLast
  /\ UNCHANGED ctx
  /\ IF EncryptArgsBad(argsOk)
     THEN /\ result' = Thrown("InvalidArguments")
          /\ loc' = NoLoc /\ pc' = "returned" /\ UNCHANGED heap
     ELSE IF key_len \notin ValidKeyLens
     THEN /\ result' = Thrown("InvalidKeyLength")
          /\ loc' = NoLoc /\ pc' = "returned" /\ UNCHANGED heap
     ELSE /\ result' = NoResult
          /\ loc' = [NoLoc EXCEPT
                       !.cipher_type = CipherFor(key_len),
                       !.buf_len = EncryptBufferLen(Len(plaintext), key_len),
                       !.out_len = EncryptBufferLen(Len(plaintext), key_len)]
          /\ heap' = heap + 2
          /\ pc' = "e_new"

\* line 113
E_new ==
  /\ pc = "e_new"
  /\ \E f \in OomChoices :
       /\ ctx' = EVP_CIPHER_CTX_new(f)
       /\ Logged("new", ~f)
       /\ life' = IF f THEN life
                  ELSE [life EXCEPT !.created = @ + 1, !.live = @ + 1]
  /\ pc' = "e_init"
  /\ UNCHANGED <<op, args, loc, heap, result, last, tamper>>

\* line 115
E_init ==
  /\ pc = "e_init"
  /\ IF ctx.st = "null" THEN Crash
     ELSE \E f \in OomChoices :
            LET r == EVP_CipherInit_ex(ctx, loc.cipher_type, TRUE, f) IN
            /\ ctx' = r.ctx /\ Logged("init", r.ok)
            /\ pc' = "e_ivlen"
            /\ UNCHANGED <<op, args, loc, heap, life, result, last, tamper>>

\* line 118
E_ivlen ==
  /\ pc = "e_ivlen"
  /\ LET r == EVP_CTRL_GCM_SET_IVLEN(ctx, Len(args.iv)) IN
       ctx' = r.ctx /\ Logged("ivlen", r.ok)
  /\ pc' = "e_keyiv"
  /\ UNCHANGED <<op, args, loc, heap, life, result, last, tamper>>

\* lines 121-123
E_keyiv ==
  /\ pc = "e_keyiv"
  /\ \E ivread \in IvReads(ctx, args.iv) :
       LET r == EVP_CipherInit_ex_keyiv(ctx, ivread) IN
         ctx' = r.ctx /\ Logged("keyiv", r.ok)
  /\ pc' = "e_aad"
  /\ UNCHANGED <<op, args, loc, heap, life, result, last, tamper>>

\* lines 126-128
E_aad ==
  /\ pc = "e_aad"
  /\ IF ~args.hasAuthData
     THEN /\ pc' = "e_update"
          /\ UNCHANGED <<op, args, loc, ctx, heap, life, calls, failed,
                         result, last, tamper>>
     ELSE IF ctx.cipher = "none" THEN Crash
     ELSE LET r == EVP_Update_aad(ctx, args.aad) IN
          /\ ctx' = r.ctx /\ Logged("aad", r.ok)
          /\ loc' = IF r.ok THEN [loc EXCEPT !.outl = <<r.outl>>] ELSE loc
          /\ pc' = "e_update"
          /\ UNCHANGED <<op, args, heap, life, result, last, tamper>>

\* Encrypt without line 132: ciphertext_len keeps the size of the buffer
E_update_mut ==
  /\ pc = "e_update"
  /\ IF ctx.cipher = "none" THEN Crash
     ELSE LET r    == EVP_Update_data(ctx, args.data)
              outl == IF r.ok THEN <<r.outl>> ELSE loc.outl
          IN  /\ ctx' = r.ctx /\ Logged("update", r.ok)
              /\ \E v \in ReadInt(outl) :
                   loc' = [loc EXCEPT !.buf = r.out, !.outl = outl,
                                      !.out_len = @,
                                      !.reported = IF r.ok THEN r.outl ELSE 0]
              /\ pc' = "e_final"
              /\ UNCHANGED <<op, args, heap, life, result, last, tamper>>

\* lines 131-132; a failed EVP_EncryptUpdate leaves outl as it was
E_update ==
  /\ pc = "e_update"
  /\ IF ctx.cipher = "none" THEN Crash
     ELSE LET r    == EVP_Update_data(ctx, args.data)
              outl == IF r.ok THEN <<r.outl>> ELSE loc.outl
          IN  /\ ctx' = r.ctx /\ Logged("update", r.ok)
              /\ \E v \in ReadInt(outl) :
                   loc' = [loc EXCEPT !.buf = r.out, !.outl = outl,
                                      !.out_len = SizeT(v),
                                      !.reported = IF r.ok THEN r.outl ELSE 0]
              /\ pc' = "e_final"
              /\ UNCHANGED <<op, args, heap, life, result, last, tamper>>

\* lines 135-136
E_final ==
  /\ pc = "e_final"
  /\ LET r    == EVP_EncryptFinal_ex(ctx)
         outl == IF r.ok THEN <<r.outl>> ELSE loc.outl
     IN  /\ ctx' = r.ctx /\ Logged("final", r.ok)
         /\ \E v \in ReadInt(outl) :
              loc' = [loc EXCEPT !.outl = outl,
                                 !.out_len = SizeT(Uint32(loc.out_len) + v),
                                 !.reported = IF r.ok THEN @ + r.outl ELSE @]
  /\ pc' = "e_gettag"
  /\ UNCHANGED <<op, args, heap, life, result, last, tamper>>

\* line 139
E_gettag ==
  /\ pc = "e_gettag"
  /\ LET r == EVP_CTRL_GCM_GET_TAG(ctx) IN
       /\ Logged("gettag", r.ok)
       /\ loc' = IF r.ok THEN [loc EXCEPT !.auth_tag = r.tag] ELSE loc
  /\ pc' = "e_free"
  /\ UNCHANGED <<op, args, ctx, heap, life, result, last, tamper>>

\* line 142
E_free ==
  /\ pc = "e_free"
  /\ ctx' = EVP_CIPHER_CTX_free(ctx)
  /\ life' = IF ctx.st = "live"
             THEN [life EXCEPT !.freed = @ + 1, !.live = @ - 1] ELSE life
  /\ calls' = Append(calls, "free")
  /\ pc' = "e_return"
  /\ UNCHANGED <<op, args, loc, heap, failed, result, last, tamper>>

\* lines 148-156: the buffers are copied into the result; neither ciphertext
\* nor auth_tag is deleted
E_return ==
  /\ pc = "e_return"
  /\ \E g \in Byte :
       LET ct  == CopyBuffer(loc.buf, Uint32(loc.out_len), g)
           tag == CopyBuffer(loc.auth_tag, AUTH_TAG_LEN, g)
       IN  /\ result' = [NoResult EXCEPT !.kind = "object", !.data = ct,
                                         !.auth_tag = tag]
           /\ last' = [valid |-> TRUE, key_len |-> args.key_len,
                       iv |-> args.iv, plaintext |-> args.data,
                       hasAuthData |-> args.hasAuthData, aad |-> args.aad,
                       ciphertext |-> ct, auth_tag |-> tag]
  /\ pc' = "returned"
  /\ UNCHANGED <<op, args, loc, ctx, heap, life, calls, failed, tamper>>

(* ------------------------------ Decrypt -------------------------------- *)
\* the ways a decrypt call can differ from the last encrypt in one bit
Tampers ==
  {NoTamper}
  \cup {[kind |-> "ct", pos |-> p] : p \in 1..Len(last.ciphertext)}
  \cup {[kind |-> "aad", pos |-> p] : p \in 1..Len(last.aad)}
  \cup {[kind |-> "tag", pos |-> p] : p \in 1..AUTH_TAG_LEN}

\* the argument check without the test of the tag length
DecryptArgsBad_mut(argsOk, auth_tag) == ~argsOk

\* lines 167-174: fewer than 5 arguments, one of a wrong type, or a tag that
\* is not 16 bytes long
DecryptArgsBad(argsOk, auth_tag) ==
  ~argsOk \/ Len(auth_tag) # AUTH_TAG_LEN

\* lines 163-219: argument check (with the tag length), cipher selection,
\* buffer; the arguments are those of the last encrypt and its output,
\* changed as t says, with any key length and tag length
DecryptCall(argsOk, key_len, tag_len, t) ==
  LET ciphertext == IF t.kind = "ct" THEN Flip(last.ciphertext, t.pos)
                    ELSE last.ciphertext
      aad        == IF t.kind = "aad" THEN Flip(last.aad, t.pos) ELSE last.aad
      auth_tag   == Resize(IF t.kind = "tag" THEN Flip(last.auth_tag, t.pos)
                           ELSE last.auth_tag, tag_len)
  IN
  /\ pc = "idle"
  /\ op' = "decrypt"
  /\ args' = [argsOk |-> argsOk, key_len |-> key_len, iv |-> last.iv,
              data |-> ciphertext, hasAuthData |-> last.hasAuthData,
              aad |-> aad, auth_tag |-> auth_tag]
  /\ calls' = <<>> /\ failed' = {}
  /\ life' = [created |-> 0, freed |-> 0, live |-> life.live]
  /\ tamper' = t
  /\ UNCHANGED <<ctx, last>>
  /\ IF DecryptArgsBad(argsOk, auth_tag)
     THEN /\ result' = Thrown("InvalidArguments")
          /\ loc' = NoLoc /\ pc' = "returned" /\ UNCHANGED heap
     ELSE IF key_len \notin ValidKeyLens
     THEN /\ result' = Thrown("InvalidKeyLength")
          /\ loc' = NoLoc /\ pc' = "returned" /\ UNCHANGED heap
     ELSE /\ result' = NoResult
          /\ loc' = [NoLoc EXCEPT
                       !.cipher_type = CipherFor(key_len),
                       !.buf_len = DecryptBufferLen(Len(ciphertext)),
                       !.out_len = DecryptBufferLen(Len(ciphertext))]
          /\ heap' = heap + 1
          /\ pc' = "d_new"

\* line 227
D_new ==
  /\ pc = "d_new"
  /\ \E f \in OomChoices :
       /\ ctx' = EVP_CIPHER_CTX_new(f)
       /\ Logged("new", ~f)
       /\ life' = IF f THEN life
                  ELSE [life EXCEPT !.created = @ + 1, !.live = @ + 1]
  /\ pc' = "d_init"
  /\ UNCHANGED <<op, args, loc, heap, result, last, tamper>>

\* line 229
D_init ==
  /\ pc = "d_init"
  /\ IF ctx.st = "null" THEN Crash
     ELSE \E f \in OomChoices :
            LET r == EVP_CipherInit_ex(ctx, loc.cipher_type, FALSE, f) IN
            /\ ctx' = r.ctx /\ Logged("init", r.ok)
            /\ pc' = "d_ivlen"
            /\ UNCHANGED <<op, args, loc, heap, life, result, last, tamper>>

\* line 232
D_ivlen ==
  /\ pc = "d_ivlen"
  /\ LET r == EVP_CTRL_GCM_SET_IVLEN(ctx, Len(args.iv)) IN
       ctx' = r.ctx /\ Logged("ivlen", r.ok)
  /\ pc' = "d_keyiv"
  /\ UNCHANGED <<op, args, loc, heap, life, result, last, tamper>>

\* lines 235-237
D_keyiv ==
  /\ pc = "d_keyiv"
  /\ \E ivread \in IvReads(ctx, args.iv) :
       LET r == EVP_CipherInit_ex_keyiv(ctx, ivread) IN
         ctx' = r.ctx /\ Logged("keyiv", r.ok)
  /\ pc' = "d_aad"
  /\ UNCHANGED <<op, args, loc, heap, life, result, last, tamper>>

\* Decrypt without the test of hasAuthData around the update
D_aad_mut ==
  /\ pc = "d_aad"
  /\ IF FALSE
     THEN /\ pc' = "d_update"
          /\ UNCHANGED <<op, args, loc, ctx, heap, life, calls, failed,
                         result, last, tamper>>
     ELSE IF ctx.cipher = "none" THEN Crash
     ELSE LET r == EVP_Update_aad(ctx, args.aad) IN
          /\ ctx' = r.ctx /\ Logged("aad", r.ok)
          /\ loc' = [loc EXCEPT !.outl = <<r.outl>>]
          /\ pc' = "d_update"
          /\ UNCHANGED <<op, args, heap, life, result, last, tamper>>

\* lines 240-242; a failed EVP_DecryptUpdate zeroes outl
D_aad ==
  /\ pc = "d_aad"
  /\ IF ~args.hasAuthData
     THEN /\ pc' = "d_update"
          /\ UNCHANGED <<op, args, loc, ctx, heap, life, calls, failed,
                         result, last, tamper>>
     ELSE IF ctx.cipher = "none" THEN Crash
     ELSE LET r == EVP_Update_aad(ctx, args.aad) IN
          /\ ctx' = r.ctx /\ Logged("aad", r.ok)
          /\ loc' = [loc EXCEPT !.outl = <<r.outl>>]
          /\ pc' = "d_update"
          /\ UNCHANGED <<op, args, heap, life, result, last, tamper>>

\* lines 245-246
D_update ==
  /\ pc = "d_update"
  /\ IF ctx.cipher = "none" THEN Crash
     ELSE LET r == EVP_Update_data(ctx, args.data) IN
          /\ ctx' = r.ctx /\ Logged("update", r.ok)
          /\ loc' = [loc EXCEPT !.buf = r.out, !.outl = <<r.outl>>,
                                !.out_len = SizeT(r.outl),
                                !.reported = r.outl]
          /\ pc' = "d_settag"
          /\ UNCHANGED <<op, args, heap, life, result, last, tamper>>

\* line 249
D_settag ==
  /\ pc = "d_settag"
  /\ LET r == EVP_CTRL_GCM_SET_TAG(ctx, args.auth_tag) IN
       ctx' = r.ctx /\ Logged("settag", r.ok)
  /\ pc' = "d_final"
  /\ UNCHANGED <<op, args, loc, heap, life, result, last, tamper>>

\* the verdict taken from a test that a return value of 0 passes too
D_final_mut ==
  /\ pc = "d_final"
  /\ LET r == EVP_DecryptFinal_ex(ctx) IN
       /\ ctx' = r.ctx /\ Logged("final", r.ok)
       /\ loc' = [loc EXCEPT !.auth_ok = (r.outl >= 0), !.outl = <<r.outl>>,
                             !.out_len = SizeT(Uint32(loc.out_len) + r.outl),
                             !.reported = @ + r.outl]
  /\ pc' = "d_free"
  /\ UNCHANGED <<op, args, heap, life, result, last, tamper>>

\* lines 252-253: the verdict is the return value of EVP_DecryptFinal_ex
D_final ==
  /\ pc = "d_final"
  /\ LET r == EVP_DecryptFinal_ex(ctx) IN
       /\ ctx' = r.ctx /\ Logged("final", r.ok)
       /\ loc' = [loc EXCEPT !.auth_ok = r.ok, !.outl = <<r.outl>>,
                             !.out_len = SizeT(Uint32(loc.out_len) + r.outl),
                             !.reported = @ + r.outl]
  /\ pc' = "d_free"
  /\ UNCHANGED <<op, args, heap, life, result, last, tamper>>

\* Decrypt leaving early, before the clean up, when the tag does not verify
D_free_mut ==
  /\ pc = "d_free"
  /\ ctx' = IF loc.auth_ok THEN EVP_CIPHER_CTX_free(ctx) ELSE ctx
  /\ life' = IF ctx.st = "live" /\ loc.auth_ok
             THEN [life EXCEPT !.freed = @ + 1, !.live = @ - 1] ELSE life
  /\ calls' = Append(calls, "free")
  /\ pc' = "d_return"
  /\ UNCHANGED <<op, args, loc, heap, failed, result, last, tamper>>

\* line 256
D_free ==
  /\ pc = "d_free"
  /\ ctx' = EVP_CIPHER_CTX_free(ctx)
  /\ life' = IF ctx.st = "live"
             THEN [life EXCEPT !.freed = @ + 1, !.live = @ - 1] ELSE life
  /\ calls' = Append(calls, "free")
  /\ pc' = "d_return"
  /\ UNCHANGED <<op, args, loc, heap, failed, result, last, tamper>>

\* lines 262-269: the plaintext buffer is copied into the result and never
\* deleted
D_return ==
  /\ pc = "d_return"
  /\ \E g \in Byte :
       result' = [NoResult EXCEPT
                    !.kind = "object",
                    !.data = CopyBuffer(loc.buf, Uint32(loc.out_len), g),
                    !.auth_ok = loc.auth_ok]
  /\ pc' = "returned"
  /\ UNCHANGED <<op, args, loc, ctx, heap, life, calls, failed, last, tamper>>

(* ------------------------------ return --------------------------------- *)
\* the handler's frame is gone: the result is with the caller and the
\* arguments and locals (the pointers ctx, ciphertext, plaintext, auth_tag
\* among them) are out of scope; what they pointed to stays as it was.  The
\* caller keeps what an encrypt returned, for the next call, or drops it
Unwind ==
  /\ pc = "returned"
  /\ pc' = "idle" /\ op' = "none" /\ args' = NoArgs /\ loc' = NoLoc
  /\ ctx' = NoCtx /\ calls' = <<>> /\ failed' = {} /\ result' = NoResult
  /\ tamper' = NoTamper
  /\ life' = [created |-> 0, freed |-> 0, live |-> life.live]
  /\ \E keep \in {op = "encrypt" /\ last.valid, FALSE} :
       last' = IF keep THEN last ELSE NoLast
  /\ UNCHANGED heap

(* --------------------------- specification ----------------------------- *)
\* an encrypt does not read what the caller kept, so it is called from the
\* idle states in which the caller kept nothing
EncryptInputs ==
  /\ pc = "idle" /\ heap < MaxLive /\ ~last.valid
  /\ \E argsOk \in BOOLEAN, key_len \in KeyLens, iv \in Ivs,
        plaintext \in BufsUpTo(MaxLen), hasAuthData \in BOOLEAN :
       \E aad \in IF hasAuthData THEN Aads ELSE {<<>>} :
         EncryptCall(argsOk, key_len, iv, plaintext, hasAuthData, aad)

\* a tampered call is otherwise the honest one
DecryptInputs ==
  /\ pc = "idle" /\ heap < MaxLive
  /\ \E argsOk \in BOOLEAN, key_len \in KeyLens, tag_len \in TagLens,
        t \in Tampers :
         /\ t # NoTamper => /\ argsOk /\ tag_len = AUTH_TAG_LEN
                            /\ key_len = last.key_len
         /\ DecryptCall(argsOk, key_len, tag_len, t)

Next ==
  \/ EncryptInputs
  \/ E_new \/ E_init \/ E_ivlen \/ E_keyiv \/ E_aad \/ E_update \/ E_final
  \/ E_gettag \/ E_free \/ E_return
  \/ DecryptInputs
  \/ D_new \/ D_init \/ D_ivlen \/ D_keyiv \/ D_aad \/ D_update \/ D_settag
  \/ D_final \/ D_free \/ D_return
  \/ Unwind

Spec == Init /\ [][Next]_vars

(* ----------------- buffer sizing over longer buffers ------------------- *)
Zeros(n) == [i \in 1..n |-> 0]

\* the caller holds a buffer of n bytes, n up to MaxBufLen
SizingInit ==
  /\ pc = "idle" /\ op = "none" /\ args = NoArgs /\ loc = NoLoc
  /\ ctx = NoCtx /\ heap = 0
  /\ life = [created |-> 0, freed |-> 0, live |-> 0]
  /\ calls = <<>> /\ failed = {} /\ result = NoResult
  /\ tamper = NoTamper
  /\ \E n \in 0..MaxBufLen : last = [NoLast EXCEPT !.ciphertext = Zeros(n)]

\* it is passed to Encrypt as the plaintext
SizingEncrypt ==
  \E key_len \in ValidKeyLens :
    EncryptCall(TRUE, key_len, <<0>>, last.ciphertext, FALSE, <<>>)

\* or to Decrypt as the ciphertext
SizingDecrypt ==
  \E key_len \in ValidKeyLens :
    DecryptCall(TRUE, key_len, AUTH_TAG_LEN, NoTamper)

SizingNext == SizingEncrypt \/ SizingDecrypt

SpecSizing == SizingInit /\ [][SizingNext]_vars

(* ------------------------------ claims --------------------------------- *)
Ended == pc = "returned"

\* a decrypt call that repeats the last encrypt: its key and IV, its
\* associated data, its ciphertext and its tag
HonestDecrypt ==
  /\ op = "decrypt" /\ last.valid /\ tamper = NoTamper
  /\ args.argsOk /\ args.key_len = last.key_len
  /\ Len(args.auth_tag) = AUTH_TAG_LEN

\* C1: decrypt of what encrypt returned, with the same key, iv and associated
\* data, returns the plaintext that was encrypted and auth_ok = true, for
\* every key of length 16, 24 or 32, every iv, plaintext and associated data
C1_RoundTrip ==
  (Ended /\ HonestDecrypt) =>
    /\ result.kind = "object"
    /\ result.data = last.plaintext
    /\ result.auth_ok

\* C2: when one bit of the ciphertext, the tag or the associated data differs
\* from what encrypt produced or used under the same key and iv, decrypt
\* returns an object, auth_ok is false and the plaintext is as long as the
\* ciphertext
C2_TamperDetected ==
  (Ended /\ op = "decrypt" /\ last.valid /\ tamper # NoTamper) =>
    /\ result.kind = "object"
    /\ result.auth_ok = FALSE
    /\ Len(result.data) = Len(args.data)

C2_Witness ==
  /\ Ended /\ op = "decrypt" /\ last.valid /\ tamper.kind = "ct"
  /\ Len(args.data) = MaxLen /\ args.data # last.ciphertext
  /\ result.kind = "object" /\ ~result.auth_ok

\* C3: the ciphertext encrypt returns is as long as the plaintext, for every
\* length from zero on and each key length, and its length is what update
\* and finalize reported, not the size of the work buffer
C3_LengthInvariant ==
  (Ended /\ op = "encrypt" /\ result.kind = "object") =>
    /\ Len(result.data) = Len(args.data)
    /\ Len(result.data) = loc.reported
    /\ Uint32(loc.out_len) = loc.reported

C3_Witness ==
  /\ Ended /\ op = "encrypt" /\ result.kind = "object"
  /\ args.key_len = 24 /\ Len(args.data) = MaxLen
  /\ Uint32(loc.buf_len) # Len(result.data)

\* the arguments are well formed but for the key
WellFormedButKey ==
  /\ op # "none" /\ args.argsOk
  /\ op = "decrypt" => Len(args.auth_tag) = AUTH_TAG_LEN

\* C4: in encrypt and in decrypt a key that is not 16, 24 or 32 bytes long
\* ends the call with the invalid-key-length error before a context exists
\* or the primitive is called, and no result object is returned; a key of
\* 16, 24 or 32 bytes selects AES-128-GCM, AES-192-GCM or AES-256-GCM
C4_KeyLength ==
  /\ (WellFormedButKey /\ args.key_len \notin {16, 24, 32}) =>
       /\ Ended
       /\ result = Thrown("InvalidKeyLength")
       /\ calls = <<>> /\ life.created = 0 /\ ctx = NoCtx /\ loc = NoLoc
  /\ (WellFormedButKey /\ args.key_len \in {16, 24, 32}) =>
       /\ result.kind # "error"
       /\ loc.cipher_type = (IF args.key_len = 16 THEN "aes-128-gcm"
                             ELSE IF args.key_len = 24 THEN "aes-192-gcm"
                             ELSE "aes-256-gcm")
       /\ ctx.cipher \in {"none", loc.cipher_type}

C4_Witness ==
  /\ Ended /\ op = "decrypt" /\ WellFormedButKey /\ args.key_len = 20
  /\ result.msg = "InvalidKeyLength"

\* C5: decrypt with a tag that is not 16 bytes long ends with the
\* invalid-arguments error before a context exists or the primitive is
\* called, with no output, whatever the other arguments are
C5_TagLength ==
  (op = "decrypt" /\ Len(args.auth_tag) # AUTH_TAG_LEN) =>
    /\ Ended
    /\ result = Thrown("InvalidArguments")
    /\ calls = <<>> /\ life.created = 0 /\ ctx = NoCtx /\ loc = NoLoc

C5_Witness ==
  /\ Ended /\ op = "decrypt" /\ Len(args.auth_tag) = 12
  /\ args.argsOk /\ args.key_len = 33
  /\ result.msg = "InvalidArguments"

\* the primitive calls whose failure is an error (the finalize of a decrypt
\* fails when the tag does not verify, which is a verdict and no error)
FailedSteps == failed \ (IF op = "decrypt" THEN {"final"} ELSE {})

\* C6: a call in which a step of the primitive failed ends in an error and
\* returns no result object
C6_FailuresPropagate ==
  (Ended /\ FailedSteps # {}) => result.kind = "error"

\* C7: a call creates at most one context, a context serves one call only,
\* and when the call has ended (validation failure, primitive failure,
\* authentication failure or success) each context it created has been
\* destroyed once and no context is live
C7_ContextLifecycle ==
  /\ life.created <= 1 /\ life.freed <= life.created /\ life.live <= 1
  /\ ctx.st = "live" => (life.created = 1 /\ life.freed = 0 /\ life.live = 1)
  /\ pc \in {"returned", "idle"} =>
       /\ life.live = 0 /\ life.freed = life.created /\ ctx.st # "live"
  /\ pc \in {"e_new", "d_new"} => (life.created = 0 /\ ctx.st = "none")

C7_Witness ==
  /\ Ended /\ op = "decrypt" /\ result.kind = "object" /\ ~result.auth_ok
  /\ life.created = 1 /\ life.freed = 1 /\ life.live = 0

IsPrefix(a, b) == Len(a) <= Len(b) /\ a = SubSeq(b, 1, Len(a))

\* the order in which a call has to drive the primitive
Pipeline(o, hasAuthData) ==
  <<"new", "init", "ivlen", "keyiv">>
  \o (IF hasAuthData THEN <<"aad">> ELSE <<>>)
  \o (IF o = "encrypt" THEN <<"update", "final", "gettag", "free">>
      ELSE <<"update", "settag", "final", "free">>)

\* C8: a call that passes validation drives the primitive in the order
\* create, bind, absorb the associated data (only when supplied, before the
\* primary data), process the primary buffer once, finalize once, destroy,
\* with the tag extracted after finalize (encrypt) or installed before it
\* (decrypt); nothing is skipped, repeated or reordered
C8_PipelineOrder ==
  /\ IsPrefix(calls, Pipeline(op, args.hasAuthData))
  /\ (Ended /\ result.kind = "object") =>
       calls = Pipeline(op, args.hasAuthData)
  /\ (Ended /\ result.kind = "error") => calls = <<>>
  /\ pc \in {"e_final", "d_settag"} =>
       /\ ctx.aad = (IF args.hasAuthData THEN args.aad ELSE <<>>)
       /\ Len(ctx.data) = Len(args.data)
  /\ pc = "d_free" => (ctx.tag_set /\ ctx.tag = args.auth_tag)
  /\ pc = "e_free" => (ctx.done /\ loc.auth_tag = GcmTag(ctx))

C8_Witness ==
  /\ Ended /\ op = "decrypt" /\ result.kind = "object"
  /\ ~args.hasAuthData
  /\ calls = <<"new", "init", "ivlen", "keyiv", "update", "settag", "final",
               "free">>

\* C9: the work buffer of encrypt and of decrypt is at least as large as the
\* primary buffer, also for length 0 where n - 1 wraps around, so what the
\* primitive writes stays inside it
C9_BufferFits ==
  loc.cipher_type # "none" =>
    /\ SizeTGeq(loc.buf_len, SizeT(Len(args.data)))
    /\ SizeTGeq(loc.buf_len, SizeT(Len(loc.buf)))

C9_Witness ==
  /\ op = "encrypt" /\ args.key_len = 24 /\ Len(args.data) = 0
  /\ loc.cipher_type = "aes-192-gcm" /\ loc.buf_len = SizeT(8)

\* C10: when a call has ended every buffer it allocated has been released
C10_NoLeak ==
  pc \in {"returned", "idle"} => heap = 0

====
